---- MODULE Spec2Model ----
(***************************************************************************)
(* The MwalimuBot / GoalGetter agent orchestration: one user's turns       *)
(* through the LangGraph workflow of src/backend/app/graph/graph.py        *)
(* (first -> routing_agent / tutor_agent -> tavily_agent / respond_to_user *)
(* -> END), the nodes' handling of the decision model's Handoff object,    *)
(* and the handlers that load, run and save the conversation state: the    *)
(* Telegram handler and the /chat/ endpoint of the tutoring bot, and the   *)
(* /chat/ endpoint of GoalGetter with its one-node graph.                  *)
(*                                                                         *)
(* Spec follows one chat through its turns. Concurrent follows two         *)
(* handle_message calls, of one chat or of two, over the conversations     *)
(* table. Replay follows a request and its retry, step by step, against    *)
(* a row that is not written in between. Sessions adds the /start command  *)
(* to the two calls. Tools follows the calls of GoalGetter's update_goal   *)
(* and update_habit tools against the goals and the habits tables.         *)
(*                                                                         *)
(* Texts are sequences of characters, so that strip_markdown is computed.  *)
(* An Optional value is None == <<>> or Some(v) == <<v>>.                  *)
(***************************************************************************)
EXTENDS Integers, Sequences, FiniteSets, TLC

VARIABLES
    entry,        \* the entry point that serves this user
    state,        \* the MwalimuBotState carried through the graph
    pc,           \* the graph node about to run, or idle / END / raised
    exc,          \* the exception that left ainvoke, "None" if none
    supersteps,   \* nodes the graph engine has run in this ainvoke
    saved,        \* mwalimu_conversations row of the chat: None or Some(state)
    reply,        \* reply_text sent for the last finished turn: None or Some(text)
    decision,     \* outcome of the last call_llm_api of this turn
    hist0,        \* Len(node_history) when the turn's ainvoke started
    invocations,  \* agent nodes run in this turn (router, tutor, tavily, respond)
    llm_calls,    \* call_llm_api calls made in this turn
    llm_timeouts, \* ... of which timed out
    writes,       \* save_conversation calls made in this turn
    user,         \* GoalGetter: the users table has a row for this user
    gstate,       \* GoalGetter: the GoalGetterState of the last request, or None
    gpc,          \* GoalGetter: position of the request in chat_endpoint
    store,        \* several chats: the mwalimu_conversations table
    turns,        \* several chats: the handle_message calls in progress
    written,      \* several chats: the result last passed to a successful save
    same_inputs,  \* a retried request: search and console gave both the same
    goals_table,  \* GoalGetter's tools: the goals table, a row per goal_id
    habits_table, \* GoalGetter's tools: the habits table, a row per habit_id
    tool_call,    \* GoalGetter's tools: the arguments of the call in progress
    tool_result   \* GoalGetter's tools: what the last call returned, or None

vars == <<entry, state, pc, exc, supersteps, saved, reply, decision, hist0,
          invocations, llm_calls, llm_timeouts, writes, user, gstate, gpc,
          store, turns, written, same_inputs,
          goals_table, habits_table, tool_call, tool_result>>

\* the variables of the tutoring bot and those of GoalGetter
mwalimu == <<state, pc, exc, supersteps, saved, decision, hist0,
             invocations, llm_calls, llm_timeouts, writes>>
goalgetter == <<user, gstate, gpc>>

ghost == <<decision, hist0, invocations, llm_calls, llm_timeouts, writes>>

\* the variables of the handlers that serve several chats at once
concurrent == <<store, turns, written, same_inputs>>

\* the variables of the runs of one chat
single == <<entry, state, pc, exc, supersteps, saved, reply, decision, hist0,
            invocations, llm_calls, llm_timeouts, writes, user, gstate, gpc>>

\* the variables of the database tools of GoalGetter
tools == <<goals_table, habits_table, tool_call, tool_result>>

----------------------------------------------------------------------------
(* Bounds of the model *)

\* entries in one Handoff object returned by the decision model
MaxHandoffs == 2
\* LangGraph stops a run with GraphRecursionError when it has not reached END
\* within recursion_limit supersteps; ainvoke is called without a config, so
\* the library default applies.
RecursionLimit == 25

----------------------------------------------------------------------------
(* Optional values and texts *)

None == <<>>
Some(v) == <<v>>

\* Python truthiness of a str
Truthy(text) == text # <<>>

\* the backquote character of a text
Tick == "tick"

\* re.sub(r'\*\*|__|\*|_', '', text): every asterisk and underscore goes
StripEmphasis(text) == SelectSeq(text, LAMBDA c : c \notin {"*", "_"})

IsFence(text, i) ==
    /\ i + 2 <= Len(text)
    /\ text[i] = Tick /\ text[i + 1] = Tick /\ text[i + 2] = Tick

\* position of the first fence (three backquotes) at or after i, 0 if none
FirstFence(text, i) ==
    LET at == {k \in i..Len(text) : IsFence(text, k)}
    IN  IF at = {} THEN 0 ELSE CHOOSE k \in at : \A m \in at : k <= m

\* re.sub of fence .*? fence with re.DOTALL: leftmost, non-greedy
RECURSIVE RemoveCodeBlocks(_)
RemoveCodeBlocks(text) ==
    LET i == FirstFence(text, 1)
        j == FirstFence(text, i + 3)
    IN  IF i = 0 \/ j = 0 THEN text
        ELSE SubSeq(text, 1, i - 1)
                \o RemoveCodeBlocks(SubSeq(text, j + 3, Len(text)))

\* position of the first backquote at or after i, 0 if there is none
FirstTick(text, i) ==
    LET at == {k \in i..Len(text) : text[k] = Tick}
    IN  IF at = {} THEN 0 ELSE CHOOSE k \in at : \A m \in at : k <= m

\* re.sub of backquote .*? backquote: leftmost, non-greedy, '.' matches no newline
RECURSIVE RemoveInlineCode(_)
RemoveInlineCode(text) ==
    LET i == FirstTick(text, 1)
        j == FirstTick(text, i + 1)
    IN  IF i = 0 \/ j = 0 THEN text
        ELSE IF \E k \in (i + 1)..(j - 1) : text[k] = "\n"
             THEN SubSeq(text, 1, i)
                    \o RemoveInlineCode(SubSeq(text, i + 1, Len(text)))
             ELSE SubSeq(text, 1, i - 1)
                    \o RemoveInlineCode(SubSeq(text, j + 1, Len(text)))

strip_markdown(text) == RemoveInlineCode(RemoveCodeBlocks(StripEmphasis(text)))

----------------------------------------------------------------------------
(* The decision model's structured output *)

AgentNames == {"tutor_agent", "respond_to_user", "tavily_agent"}

\* message_to_student texts the decision model may produce: a plain one, and
\* one with emphasis marks and inline code
Marked == <<"*", "b", "*", Tick, "c", Tick>>
Messages == {<<"a">>, Marked}

\* agent_specific_parameters: one of the three parameter models; only
\* RespondToUserParameters has the attribute message_to_student
NoMessage == <<>>
AgentParameters ==
    {[shape |-> "TutorParameters", message_to_student |-> NoMessage],
     [shape |-> "TavilyParameters", message_to_student |-> NoMessage]}
      \cup [shape : {"RespondToUserParameters"}, message_to_student : Messages]

\* the parameter model the prompts give each agent
OwnShape(agent_name) ==
    IF agent_name = "tutor_agent" THEN "TutorParameters"
    ELSE IF agent_name = "tavily_agent" THEN "TavilyParameters"
    ELSE "RespondToUserParameters"

\* The entries the decision model is taken to return: every agent with its own
\* parameters, tutor_agent with parameters shaped for respond_to_user, and
\* respond_to_user with parameters that have no message_to_student.
HandoffEntries ==
    {e \in [agent_name : AgentNames, agent_specific_parameters : AgentParameters] :
        \/ e.agent_specific_parameters.shape = OwnShape(e.agent_name)
        \/ /\ e.agent_name = "tutor_agent"
           /\ e.agent_specific_parameters =
                [shape |-> "RespondToUserParameters", message_to_student |-> <<"a">>]
        \/ /\ e.agent_name = "respond_to_user"
           /\ e.agent_specific_parameters.shape = "TutorParameters"}

SeqsUpTo(S, n) == UNION {[1..k -> S] : k \in 0..n}

\* Handoff.handoff_agents
HandoffLists == SeqsUpTo(HandoffEntries, MaxHandoffs)

\* what call_llm_api does: it raises (API error), it times out (an exception
\* too), it returns something that is no Handoff, or it returns a Handoff
LLMOutcomes ==
    [kind : {"error", "timeout", "wrong_type"}, handoff_agents : {<<>>}]
      \cup [kind : {"Handoff"}, handoff_agents : HandoffLists]

NoDecision == [kind |-> "none", handoff_agents |-> <<>>]

----------------------------------------------------------------------------
(* MwalimuBotState *)

UserMessages == {<<"h">>, <<"g">>}

\* what input() returns in respond_to_user_node
ConsoleInputs == {<<>>, <<"c">>}

HumanEntry(text) == [role |-> "human", content |-> text]
AssistantEntry(text) == [role |-> "assistant", content |-> text]
UserEntry(text) == [role |-> "user", content |-> text]

\* the state handle_message builds when the chat has no saved conversation
NewState(user_message) ==
    [user_input            |-> user_message,
     conversation_history  |-> <<HumanEntry(user_message)>>,
     node_history          |-> <<>>,
     first_node            |-> "router_agent",
     current_step          |-> "router_agent",
     handoff_agents        |-> <<>>,
     handoff_agents_params |-> <<>>,
     router_attempts       |-> 0,
     tutor_attempts        |-> 0,
     tavily_attempts       |-> 0,
     response_to_user_attempts |-> 0,
     tavily_results        |-> "None",
     error_message         |-> "None",
     message_to_user       |-> None,
     message_to_student    |-> None]

\* a handler that resumes the saved conversation at the search
LoadedStateAtSearch(existing_state, user_message) ==
    [existing_state EXCEPT
        !.user_input = user_message,
        !.first_node = "router_agent",
        !.conversation_history = @ \o <<HumanEntry(user_message)>>,
        !.error_message = "None",
        !.current_step = "tavily_agent",
        !.message_to_student = None]

\* the state handle_message builds from the saved conversation
LoadedState(existing_state, user_message) ==
    [existing_state EXCEPT
        !.user_input = user_message,
        !.first_node = "router_agent",
        !.conversation_history = @ \o <<HumanEntry(user_message)>>,
        !.error_message = "None",
        !.current_step = "router_agent",
        !.message_to_student = None]

\* the state chat_endpoint builds when the sender has no saved conversation;
\* the fields it does not pass take the defaults of MwalimuBotState
ChatNewState(message_body) ==
    [NewState(message_body) EXCEPT
        !.first_node = "routing_agent",
        !.current_step = "None"]

\* the state chat_endpoint builds from the saved conversation
ChatLoadedState(loaded_state, message_body) ==
    [loaded_state EXCEPT
        !.error_message = "None",
        !.handoff_agents_params = <<>>,
        !.handoff_agents = <<>>,
        !.user_input = message_body,
        !.conversation_history = @ \o <<HumanEntry(message_body)>>]

----------------------------------------------------------------------------
(* The nodes *)

HandoffEntry(node) == [node_name |-> node, response |-> "Handoff"]
ErrorEntry(node) == [node_name |-> node, response |-> "Error"]

IsTutorParameters(params) == params.shape = "TutorParameters"
\* params.message_to_student raises AttributeError on the other two models
HasMessageToStudent(params) == params.shape = "RespondToUserParameters"

AgentNamesOf(agents) == [i \in 1..Len(agents) |-> agents[i].agent_name]

\* router_node's loop over response.handoff_agents: 'raised' when reading
\* message_to_student fails, else the message_to_student it leaves
RECURSIVE RouterScan(_, _)
RouterScan(agents, i) ==
    IF i > Len(agents) THEN [raised |-> FALSE, message |-> None]
    ELSE LET agent == agents[i] IN
         IF /\ agent.agent_name = "tutor_agent"
            /\ IsTutorParameters(agent.agent_specific_parameters)
         THEN [raised |-> FALSE, message |-> None]
         ELSE IF agent.agent_name = "respond_to_user"
         THEN IF HasMessageToStudent(agent.agent_specific_parameters)
              THEN [raised |-> FALSE,
                    message |-> Some(agent.agent_specific_parameters.message_to_student)]
              ELSE [raised |-> TRUE, message |-> None]
         ELSE RouterScan(agents, i + 1)

\* tutor_node's loop: the same with strip_markdown and a break at tavily_agent
RECURSIVE TutorScan(_, _)
TutorScan(agents, i) ==
    IF i > Len(agents) THEN [raised |-> FALSE, message |-> None]
    ELSE LET agent == agents[i] IN
         IF agent.agent_name = "tutor_agent"
         THEN IF IsTutorParameters(agent.agent_specific_parameters)
              THEN [raised |-> FALSE, message |-> None]
              ELSE TutorScan(agents, i + 1)
         ELSE IF agent.agent_name = "respond_to_user"
         THEN IF HasMessageToStudent(agent.agent_specific_parameters)
              THEN LET m == agent.agent_specific_parameters.message_to_student
                   IN  [raised |-> FALSE,
                        message |-> Some(IF Truthy(m) THEN strip_markdown(m) ELSE m)]
              ELSE [raised |-> TRUE, message |-> None]
         ELSE IF agent.agent_name = "tavily_agent"
         THEN [raised |-> FALSE, message |-> None]
         ELSE TutorScan(agents, i + 1)

\* message_to_student if message_to_student else None
OrNone(message) ==
    IF message # None /\ Truthy(message[1]) THEN message ELSE None

\* f"Error in router node: {str(e)}" / f"Error in tutor node: {str(e)}"
ErrorMessage(node) ==
    IF node = "router" THEN "Error in router node" ELSE "Error in tutor node"

\* an except branch that records nothing in node_history
NodeErrorUnrecorded(st, node, history) ==
    [st EXCEPT
        !.current_step = "error",
        !.error_message = ErrorMessage(node),
        !.handoff_agents = <<>>,
        !.handoff_agents_params = <<>>]

\* the except branch of router_node / tutor_node: the attempts counter the
\* node raised on its own copy of the state is not part of the returned update
NodeError(st, node, history) ==
    [st EXCEPT
        !.node_history = Append(history, ErrorEntry(node)),
        !.current_step = "error",
        !.error_message = ErrorMessage(node),
        !.handoff_agents = <<>>,
        !.handoff_agents_params = <<>>]

\* router_node with the outcome d of its call_llm_api
router_node(st, d) ==
    IF d.kind # "Handoff" THEN NodeError(st, "router", st.node_history)
    ELSE LET history == Append(st.node_history, HandoffEntry("router"))
             scan == RouterScan(d.handoff_agents, 1)
         IN  IF scan.raised THEN NodeError(st, "router", history)
             ELSE [st EXCEPT
                     !.node_history = history,
                     !.handoff_agents = AgentNamesOf(d.handoff_agents),
                     !.handoff_agents_params = d.handoff_agents,
                     !.current_step = "router",
                     !.router_attempts = @ + 1,
                     !.error_message = "None",
                     !.message_to_student = OrNone(scan.message)]

\* tutor_node with the outcome d of its call_llm_api
tutor_node(st, d) ==
    IF d.kind # "Handoff" THEN NodeError(st, "tutor", st.node_history)
    ELSE LET history == Append(st.node_history, HandoffEntry("tutor"))
             scan == TutorScan(d.handoff_agents, 1)
         IN  IF scan.raised THEN NodeError(st, "tutor", history)
             ELSE [st EXCEPT
                     !.node_history = history,
                     !.handoff_agents = AgentNamesOf(d.handoff_agents),
                     !.handoff_agents_params = d.handoff_agents,
                     !.current_step = "tutor",
                     !.tutor_attempts = @ + 1,
                     !.error_message = "None",
                     !.message_to_student = OrNone(scan.message)]

\* tavily_agent: found tells whether client.search returned or raised
tavily_agent(st, found) ==
    IF found
    THEN [st EXCEPT !.tavily_results = "response",
                    !.tavily_attempts = @ + 1]
    ELSE [st EXCEPT !.tavily_results = "None",
                    !.tavily_attempts = @ + 1,
                    !.error_message = "Failed to get search results"]

\* respond_to_user_node with the line input() returns
respond_to_user_node(st, user_input) ==
    LET shown ==
            IF st.message_to_user # None /\ Truthy(st.message_to_user[1])
            THEN st.conversation_history \o <<AssistantEntry(st.message_to_user[1])>>
            ELSE st.conversation_history
    IN  [st EXCEPT
            !.conversation_history =
                IF Truthy(user_input) THEN shown \o <<UserEntry(user_input)>> ELSE shown,
            !.message_to_user =
                IF st.message_to_user # None /\ Truthy(st.message_to_user[1])
                THEN None ELSE @,
            !.user_input = user_input,
            !.current_step = "router_agent"]

----------------------------------------------------------------------------
(* The graph of build_graph *)

\* a first_node that looks at current_step even when node_history is empty
first_node_by_step(st) ==
    [st EXCEPT !.first_node =
        IF st.current_step = "routing_agent" THEN "routing_agent"
        ELSE IF st.current_step = "tutor_agent" THEN "tutor_agent"
        ELSE IF st.current_step = "tavily_agent" THEN "tavily_agent"
        ELSE "tutor_agent"]

\* first_node: 'routing_agent' on an empty node_history; otherwise the chain
\* on current_step, which overwrites whatever the loop over the
\* respond_to_user entries chose
first_node(st) ==
    [st EXCEPT !.first_node =
        IF st.node_history = <<>> THEN "routing_agent"
        ELSE IF st.current_step = "routing_agent" THEN "routing_agent"
        ELSE IF st.current_step = "tutor_agent" THEN "tutor_agent"
        ELSE IF st.current_step = "tavily_agent" THEN "tavily_agent"
        ELSE "tutor_agent"]

routing_from_first_node(st) == st.first_node

routing_after_routing_agent(st) ==
    IF st.handoff_agents # <<>> THEN st.handoff_agents[1] ELSE "end"

\* an edge function that follows the last handoff instead of the first
routing_after_last_handoff(st) ==
    IF st.handoff_agents # <<>> THEN st.handoff_agents[Len(st.handoff_agents)]
    ELSE "end"

routing_after_tutor_agent(st) ==
    IF st.handoff_agents # <<>> THEN st.handoff_agents[1] ELSE "end"

\* the path maps of add_conditional_edges
FirstEnds == {"routing_agent", "tutor_agent", "end"}
RouterEnds == {"respond_to_user", "tutor_agent", "end"}
\* a path map that lets the tutor hand off to itself
TutorEndsWithItself == {"respond_to_user", "tavily_agent", "end", "tutor_agent"}
TutorEnds == {"respond_to_user", "tavily_agent", "end"}

\* an engine without a recursion limit
NextPcUnlimited(route, ends, steps) ==
    IF route \notin ends THEN "raised"
    ELSE IF route = "end" THEN "END"
    ELSE route

\* Where the engine goes after a node whose edge function returned 'route':
\* a route missing from the path map is a KeyError; END ends the run; any
\* other node needs a superstep the recursion limit may no longer allow.
NextPc(route, ends, steps) ==
    IF route \notin ends THEN "raised"
    ELSE IF route = "end" THEN "END"
    ELSE IF steps >= RecursionLimit THEN "raised"
    ELSE route

NextExc(route, ends, steps) ==
    IF route \notin ends THEN "KeyError"
    ELSE IF route = "end" THEN "None"
    ELSE IF steps >= RecursionLimit THEN "GraphRecursionError"
    ELSE "None"

----------------------------------------------------------------------------
(* The Telegram handler *)

ThinkingReply == <<"I'm thinking about your message...">>
ErrorReply == <<"I encountered an error processing your request. Please try again.">>

\* final_state.get("message_to_student") or final_state.get("message_to_user"),
\* else the default text
ResponseOf(st) ==
    IF st.message_to_student # None /\ Truthy(st.message_to_student[1])
    THEN st.message_to_student[1]
    ELSE IF st.message_to_user # None /\ Truthy(st.message_to_user[1])
    THEN st.message_to_user[1]
    ELSE ThinkingReply

\* the final state with the bot's response added to the history
WithResponse(st) ==
    [st EXCEPT !.conversation_history = Append(@, AssistantEntry(ResponseOf(st)))]

\* Conversations an earlier message of the chat can have saved, each computed
\* with the operators of the model along a path of the graph:
\* a turn the router answered itself,
Greeted ==
    WithResponse(respond_to_user_node(
        router_node(first_node(NewState(<<"h">>)),
            [kind |-> "Handoff",
             handoff_agents |-> <<[agent_name |-> "respond_to_user",
                                   agent_specific_parameters |->
                                       [shape |-> "RespondToUserParameters",
                                        message_to_student |-> <<"a">>]]>>]),
        <<>>))

\* a turn whose router call timed out,
Failed ==
    WithResponse(router_node(first_node(NewState(<<"h">>)),
                             [kind |-> "timeout", handoff_agents |-> <<>>]))

\* and a second turn, after Greeted, that the tutor answered
Tutored ==
    WithResponse(respond_to_user_node(
        tutor_node(first_node(LoadedState(Greeted, <<"h">>)),
            [kind |-> "Handoff",
             handoff_agents |-> <<[agent_name |-> "respond_to_user",
                                   agent_specific_parameters |->
                                       [shape |-> "RespondToUserParameters",
                                        message_to_student |-> Marked]]>>]),
        <<"c">>))

\* and the state the /start command saves
StartMessage == <<"/", "s", "t", "a", "r", "t">>
Started == NewState(StartMessage)

\* what load_conversation can return when a message arrives
SavedConversations ==
    {None, Some(Started), Some(Greeted), Some(Failed), Some(Tutored)}

----------------------------------------------------------------------------
(* The /chat/ endpoint of the tutoring bot *)

ProcessingComplete == <<"Processing complete.">>
ChatErrorReply == <<"Sorry, there was an error processing your request.">>

\* final_state.message_to_student, else final_state.response_to_user (a field
\* no node of the graph assigns), else the default text
ChatResponseOf(st) ==
    IF st.message_to_student # None /\ Truthy(st.message_to_student[1])
    THEN st.message_to_student[1]
    ELSE ProcessingComplete

\* A conversation an earlier request to /chat/ can have saved: a turn the
\* router answered itself
ChatGreeted ==
    respond_to_user_node(
        router_node(first_node(ChatNewState(<<"h">>)),
            [kind |-> "Handoff",
             handoff_agents |-> <<[agent_name |-> "respond_to_user",
                                   agent_specific_parameters |->
                                       [shape |-> "RespondToUserParameters",
                                        message_to_student |-> <<"a">>]]>>]),
        <<>>)

ChatConversations == {None, Some(ChatGreeted)}

----------------------------------------------------------------------------
(* GoalGetter: populate_state, the router node and the /chat/ endpoint *)

\* RouterOutput.next_agents and RouterOutput.message_to_user
NextAgentLists ==
    {<<>>, <<"respond_to_user">>, <<"goal_agent">>,
     <<"habit_agent", "milestone_agent">>}
RouterMessages == {None, Some(<<"a">>)}

\* what call_llm_api does in GoalGetter's router node
RouterOutcomes ==
    [kind : {"error", "timeout", "wrong_type"}, next_agents : {<<>>},
     message_to_user : {None}, success : {FALSE}]
      \cup [kind : {"RouterOutput"}, next_agents : NextAgentLists,
            message_to_user : RouterMessages, success : BOOLEAN]

\* what the database holds for the user when a request arrives: nothing yet,
\* or a goal with a milestone, a habit, a progress log, a summary and an
\* earlier conversation
NoRows ==
    [goals |-> <<>>, habits |-> <<>>, milestones |-> <<>>,
     progress_logs |-> <<>>, user_summary |-> None, conversations |-> <<>>]

Snapshots ==
    {NoRows,
     [goals |-> <<"goal">>, habits |-> <<"habit">>, milestones |-> <<"milestone">>,
      progress_logs |-> <<"log">>, user_summary |-> Some("summary"),
      conversations |-> <<"conversation">>]}

\* the GoalGetterState populate_state returns: the rows it read from the
\* database, and for the fields it does not pass the defaults of the model,
\* whatever earlier requests left
populate_state(message, snapshot) ==
    [message         |-> message,
     response        |-> <<>>,
     router_attempts |-> 0,
     node_history    |-> <<>>,
     goals           |-> snapshot.goals,
     habits          |-> snapshot.habits,
     milestones      |-> snapshot.milestones,
     progress_logs   |-> snapshot.progress_logs,
     user_summary    |-> snapshot.user_summary,
     conversations   |-> snapshot.conversations,
     router_output   |-> None,
     error           |-> "None",
     success         |-> TRUE]

\* str(e) of the exception call_llm_api ends with
ExceptionText(kind) ==
    IF kind = "error" THEN "API request failed"
    ELSE IF kind = "timeout" THEN "Request timed out"
    ELSE "LLM response was not the expected RouterOutput object."

\* a router node that also runs the first agent its decision names
router_node_dispatching(st, d) ==
    IF d.kind = "RouterOutput"
    THEN [st EXCEPT
            !.router_attempts = @ + 1,
            !.node_history =
                IF d.next_agents # <<>>
                THEN @ \o <<HandoffEntry("router"), HandoffEntry(d.next_agents[1])>>
                ELSE Append(@, HandoffEntry("router")),
            !.router_output = Some([next_agents     |-> d.next_agents,
                                    success         |-> d.success,
                                    error           |-> None,
                                    message_to_user |-> d.message_to_user])]
    ELSE [st EXCEPT
            !.router_attempts = @ + 1,
            !.node_history = Append(@, ErrorEntry("router")),
            !.router_output = Some([next_agents     |-> <<>>,
                                    success         |-> FALSE,
                                    error           |->
                                        Some(<<"Error in router node: ",
                                               ExceptionText(d.kind)>>),
                                    message_to_user |-> None])]

\* a router node that also files the message under the user's conversations
router_node_filing(st, d) ==
    [st EXCEPT
        !.router_attempts = @ + 1,
        !.node_history = Append(@, HandoffEntry("router")),
        !.conversations = Append(@, "conversation")]

\* GoalGetter's router_node, which returns the whole state it changed
goalgetter_router_node(st, d) ==
    IF d.kind = "RouterOutput"
    THEN [st EXCEPT
            !.router_attempts = @ + 1,
            !.node_history = Append(@, HandoffEntry("router")),
            !.router_output = Some([next_agents     |-> d.next_agents,
                                    success         |-> d.success,
                                    error           |-> None,
                                    message_to_user |-> d.message_to_user])]
    ELSE [st EXCEPT
            !.router_attempts = @ + 1,
            !.node_history = Append(@, ErrorEntry("router")),
            !.router_output = Some([next_agents     |-> <<>>,
                                    success         |-> FALSE,
                                    error           |->
                                        Some(<<"Error in router node: ",
                                               ExceptionText(d.kind)>>),
                                    message_to_user |-> None])]

\* what chat_endpoint returns: {"message": final_state}, status 200
Returned(final_state) == [status_code |-> 200, content |-> final_state]

\* the HTTPException chat_endpoint raises when populate_state returned no
\* state: its detail is the fixed text followed by str(e)
HTTP500 ==
    [status_code |-> 500,
     content |-> <<"An error occurred while processing your request: ",
                   "500: Failed to populate state">>]

----------------------------------------------------------------------------
(* The conversations table and the handle_message calls of several chats *)

\* the chats (chat_id, which is the phone_number of the row) and the
\* handle_message calls that can be in progress at once
Chats == {"c1", "c2"}
Turns == {1, 2}

\* the result handle_message passes to save_conversation: the columns that
\* key the row, set from chat_id, and the state
serialize_state(state_dict, chat_id) ==
    [phone_number |-> chat_id, state |-> state_dict]

\* an upsert that keeps the conversation_history of the row it finds
save_conversation_merging(table, result) ==
    LET found == table[result.phone_number]
    IN  [table EXCEPT ![result.phone_number] =
            IF found = None THEN Some(result.state)
            ELSE Some([result.state EXCEPT
                         !.conversation_history = found[1].conversation_history])]

\* INSERT ... ON CONFLICT (phone_number) DO UPDATE SET state = EXCLUDED.state:
\* the table holds one row for each phone_number, replaced as a whole
save_conversation(table, result) ==
    [table EXCEPT ![result.phone_number] = Some(result.state)]

\* a SELECT without the WHERE clause: the state of some row of the table
load_conversation_of_any(table, phone_number) ==
    IF \A c \in Chats : table[c] = None THEN None
    ELSE table[CHOOSE c \in Chats : table[c] # None]

\* SELECT state ... WHERE phone_number = %s: the state of the row, or None
load_conversation(table, phone_number) == table[phone_number]

EmptyTable == [c \in Chats |-> None]

\* a handle_message call that has not been made yet
NoTurn ==
    [chat |-> "c1", pc |-> "idle", state |-> NewState(<<>>), exc |-> "None",
     supersteps |-> 0, loaded |-> None]

\* handle_message up to mw_graph.ainvoke, for the chat and the text of the
\* update: the state is built from the row of this chat
Received(table, chat_id, user_message) ==
    LET existing_state == load_conversation(table, chat_id)
    IN  [chat       |-> chat_id,
         pc         |-> "first",
         state      |-> IF existing_state # None
                        THEN LoadedState(existing_state[1], user_message)
                        ELSE NewState(user_message),
         exc        |-> "None",
         supersteps |-> 0,
         loaded     |-> existing_state]

\* the turn t after the edge function of the node it ran returned route
Routed(t, st, route, ends) ==
    [t EXCEPT !.state = st,
              !.supersteps = @ + 1,
              !.pc = NextPc(route, ends, t.supersteps + 1),
              !.exc = NextExc(route, ends, t.supersteps + 1)]

\* one superstep of mw_graph.ainvoke for the turn t: the node at t.pc runs
\* with the decision d of its call_llm_api, the outcome of the search, or
\* the console line
Superstep(t, d, found, user_input) ==
    IF t.pc = "first"
    THEN LET st == first_node(t.state)
         IN  Routed(t, st, routing_from_first_node(st), FirstEnds)
    ELSE IF t.pc = "routing_agent"
    THEN LET st == router_node(t.state, d)
         IN  Routed(t, st, routing_after_routing_agent(st), RouterEnds)
    ELSE IF t.pc = "tutor_agent"
    THEN LET st == tutor_node(t.state, d)
         IN  Routed(t, st, routing_after_tutor_agent(st), TutorEnds)
    ELSE IF t.pc = "tavily_agent"
    THEN Routed(t, tavily_agent(t.state, found), "tutor_agent", {"tutor_agent"})
    ELSE [Routed(t, respond_to_user_node(t.state, user_input), "end", {"end"})
            EXCEPT !.pc = "END"]

Running(t) ==
    t.pc \in {"first", "routing_agent", "tutor_agent", "tavily_agent",
              "respond_to_user"}

\* single handoffs the decision model is taken to return in these runs
HandoffTo(agent_name, message) ==
    [kind |-> "Handoff",
     handoff_agents |->
        <<[agent_name |-> agent_name,
           agent_specific_parameters |->
              IF agent_name = "respond_to_user"
              THEN [shape |-> "RespondToUserParameters", message_to_student |-> message]
              ELSE [shape |-> OwnShape(agent_name), message_to_student |-> NoMessage]]>>]

TimedOut == [kind |-> "timeout", handoff_agents |-> <<>>]

\* none of the several-chats variables moves in the runs of one chat
NoTurns ==
    /\ store = EmptyTable
    /\ turns = [t \in Turns |-> NoTurn]
    /\ written = EmptyTable
    /\ same_inputs = TRUE

----------------------------------------------------------------------------
(* The database tools of GoalGetter: update_goal_tool *)

\* Python values a helper returns: True, False, or a dictionary that reports
\* an error; a non-empty dictionary is truthy
PyBool(b) == [type |-> "bool", truthy |-> b, error_type |-> "None"]
ErrorDict(error_type) == [type |-> "dict", truthy |-> TRUE, error_type |-> error_type]

\* str.strip()
RECURSIVE lstrip(_)
lstrip(text) ==
    IF text # <<>> /\ Head(text) = " " THEN lstrip(Tail(text)) ELSE text

RECURSIVE rstrip(_)
rstrip(text) ==
    IF text # <<>> /\ text[Len(text)] = " "
    THEN rstrip(SubSeq(text, 1, Len(text) - 1)) ELSE text

strip(text) == rstrip(lstrip(text))

\* not user_id or not user_id.strip()
Missing(text) == text = <<>> \/ strip(text) = <<>>

\* the ids of the rows, and the user ids a call can be given
RowIds == {<<"1">>, <<"2">>}
GivenIds == {<<" ">>, <<"1">>, <<"2">>}

\* the dictionaries of updates a call can be given: up to MaxColumns columns,
\* every value a string
MaxColumns == 2

StrValue(text) == [type |-> "str", text |-> text]
IntValue(text) == [type |-> "int", text |-> text]

GoalColumnValues ==
    [status      |-> {StrValue("completed"), StrValue("deleted")},
     target_date |-> {StrValue("2024-12-31"), StrValue("31/12/2024")},
     user_id     |-> {StrValue("2")}]

Dicts(values) ==
    UNION {{updates \in [columns -> UNION {values[c] : c \in DOMAIN values}] :
              \A c \in columns : updates[c] \in values[c]} :
           columns \in {cs \in SUBSET DOMAIN values : Cardinality(cs) <= MaxColumns}}

GoalUpdates == Dicts(GoalColumnValues)

\* datetime.strptime(value, "%Y-%m-%d") returns for these texts and raises
\* ValueError for every other text the calls of the model are given
Dates == {"2024-01-01", "2024-12-31", "2024-03-26"}

\* how the database answers: the connection fails, the statement or the
\* commit fails, or both succeed
DbOutcomes == {"ok", "connect_error", "database_error"}

\* ALLOWED_COLUMNS of update_goals
GOAL_ALLOWED_COLUMNS ==
    {"goal_id", "title", "description", "status", "start_date", "target_date"}
GoalStatuses == {"in_progress", "completed", "cancelled"}

\* the loop of update_goals raises ValueError
GoalUpdatesRaise(updates) ==
    \E column \in DOMAIN updates :
       \/ column \notin GOAL_ALLOWED_COLUMNS
       \/ column = "status" /\ updates[column].text \notin GoalStatuses
       \/ column \in {"start_date", "target_date"}
            /\ updates[column].text \notin Dates

\* UPDATE goals SET ... WHERE user_id = %s AND goal_id = %s RETURNING goal_id
GoalRowsMatched(table, user_id, goal_id) ==
    {id \in DOMAIN table :
        id = goal_id /\ table[id] # None /\ table[id][1].user_id = user_id}

\* int(value): the number a decimal text or an integer stands for; ValueError
\* for every other text
IntegerLiterals == [text \in {"0", "1", "3"} |-> CHOOSE n \in 0..3 : ToString(n) = text]
int(value) ==
    IF value.text \in DOMAIN IntegerLiterals
    THEN Some(IntegerLiterals[value.text]) ELSE None

\* what a column holds once a parameter is written to it
Stored(column, value) ==
    IF column = "frequency_value" THEN int(value)[1] ELSE value.text

SetColumns(row, updates) ==
    [column \in DOMAIN row |->
        IF column \in DOMAIN updates THEN Stored(column, updates[column])
        ELSE row[column]]

\* update_goals: what it returns or raises, and the table it leaves.
\* A ValueError of the validation is caught by the function's own handler,
\* whose second log line reads the local variable query before it was ever
\* assigned: UnboundLocalError leaves the function. An exception of
\* get_postgres_connection reaches the same handler after query was
\* assigned, and the handler returns a dictionary; so does the handler of
\* psycopg2.Error, after a rollback. An empty SET clause is a syntax error.
update_goals(table, user_id, goal_id, updates, db) ==
    IF Missing(user_id) \/ Missing(goal_id) \/ GoalUpdatesRaise(updates)
    THEN [raised |-> "UnboundLocalError", value |-> PyBool(FALSE), table |-> table]
    ELSE IF db = "connect_error"
    THEN [raised |-> "None", value |-> ErrorDict("unexpected_error"), table |-> table]
    ELSE IF db = "database_error" \/ DOMAIN updates = {}
    THEN [raised |-> "None", value |-> ErrorDict("database_error"), table |-> table]
    ELSE IF GoalRowsMatched(table, user_id, goal_id) = {}
    THEN [raised |-> "None", value |-> PyBool(FALSE), table |-> table]
    ELSE [raised |-> "None", value |-> PyBool(TRUE),
          table |-> [id \in DOMAIN table |->
                       IF id \in GoalRowsMatched(table, user_id, goal_id)
                       THEN Some(SetColumns(table[id][1], updates))
                       ELSE table[id]]]

\* the text of a message and the id it names
Message(text, id) == [text |-> text, id |-> id]

\* update_goal_tool: the dictionary it returns for what update_goals did
update_goal_tool(outcome, goal_id) ==
    IF outcome.raised # "None"
    THEN [success |-> PyBool(FALSE),
          message |-> Message("Failed to update goal", None),
          updated_goal_id |-> None]
    ELSE [success |-> outcome.value,
          message |-> IF outcome.value.truthy
                      THEN Message("Successfully updated goal ", Some(goal_id))
                      ELSE Message("No goal found with ID ", Some(goal_id)),
          updated_goal_id |-> IF outcome.value.truthy THEN Some(goal_id) ELSE None]

\* the goals table when the calls begin: goal 1 of user 1, and goal 2 of
\* user 2 or no goal 2
GoalRow(user_id) ==
    [user_id |-> user_id, title |-> "old", status |-> "in_progress",
     target_date |-> "2024-01-01"]

GoalTables ==
    {[id \in RowIds |-> IF id = <<"1">> THEN Some(GoalRow(<<"1">>)) ELSE second] :
       second \in {None, Some(GoalRow(<<"2">>))}}

----------------------------------------------------------------------------
(* The database tools of GoalGetter: update_habit_tool *)

HabitColumnValues ==
    [frequency_type  |-> {StrValue("week"), StrValue("weekly")},
     frequency_value |-> {StrValue("3"), IntValue("3"), StrValue("x"), IntValue("0")},
     user_id         |-> {StrValue("2")}]

HabitUpdates == Dicts(HabitColumnValues)

\* allowed_columns of update_habit_tool and of update_habits
HABIT_ALLOWED_COLUMNS ==
    {"title", "description", "status", "start_date", "target_date",
     "frequency_type", "frequency_value"}
FrequencyTypes == {"day", "week", "month", "year"}

\* the validation of update_habit_tool raises ValueError: frequency_value
\* is accepted when int(value) is at least 1, whatever the type of value
HabitToolRaises(user_id, habit_id, updates) ==
    \/ Missing(user_id)
    \/ Missing(habit_id)
    \/ DOMAIN updates = {}
    \/ \E column \in DOMAIN updates :
          \/ column \notin HABIT_ALLOWED_COLUMNS
          \/ column = "status" /\ updates[column].text \notin GoalStatuses
          \/ column = "frequency_type" /\ updates[column].text \notin FrequencyTypes
          \/ column = "frequency_value"
                /\ (int(updates[column]) = None \/ int(updates[column])[1] < 1)
          \/ column \in {"start_date", "target_date"}
                /\ updates[column].text \notin Dates

\* the validation of update_habits raises ValueError: frequency_value is
\* accepted when isinstance(value, int) and value is at least 1
HabitUpdatesRaise(user_id, habit_id, updates) ==
    \/ Missing(user_id)
    \/ Missing(habit_id)
    \/ DOMAIN updates = {}
    \/ \E column \in DOMAIN updates :
          \/ column \notin HABIT_ALLOWED_COLUMNS
          \/ column = "status" /\ updates[column].text \notin GoalStatuses
          \/ column = "frequency_type" /\ updates[column].text \notin FrequencyTypes
          \/ column = "frequency_value"
                /\ (updates[column].type # "int" \/ int(updates[column])[1] < 1)

\* UPDATE habits SET ... WHERE user_id = %s AND habit_id = %s
HabitRowsMatched(table, user_id, habit_id) ==
    {id \in DOMAIN table :
        id = habit_id /\ table[id] # None /\ table[id][1].user_id = user_id}

\* update_habits: the dictionary it returns, as its success and error_type,
\* and the table it leaves. Every exception is caught and reported.
update_habits(table, user_id, habit_id, updates, db) ==
    IF HabitUpdatesRaise(user_id, habit_id, updates)
    THEN [success |-> FALSE, error_type |-> "validation_error", table |-> table]
    ELSE IF db = "connect_error"
    THEN [success |-> FALSE, error_type |-> "validation_error", table |-> table]
    ELSE IF db = "database_error"
    THEN [success |-> FALSE, error_type |-> "database_error", table |-> table]
    ELSE IF HabitRowsMatched(table, user_id, habit_id) = {}
    THEN [success |-> FALSE, error_type |-> "not_found", table |-> table]
    ELSE [success |-> TRUE, error_type |-> "None",
          table |-> [id \in DOMAIN table |->
                       IF id \in HabitRowsMatched(table, user_id, habit_id)
                       THEN Some(SetColumns(table[id][1], updates))
                       ELSE table[id]]]

\* update_habit_tool: the dictionary it returns and the table it leaves
update_habit_tool(table, user_id, habit_id, updates, db) ==
    IF HabitToolRaises(user_id, habit_id, updates)
    THEN [success |-> PyBool(FALSE), message |-> Message("str(ve)", None),
          updated_habit_id |-> None, table |-> table]
    ELSE LET result == update_habits(table, user_id, habit_id, updates, db)
         IN  IF result.success
             THEN [success |-> PyBool(TRUE),
                   message |-> Message("Habit updated successfully", Some(habit_id)),
                   updated_habit_id |-> Some(habit_id), table |-> result.table]
             ELSE [success |-> PyBool(FALSE),
                   message |-> Message("Failed to update habit ", Some(habit_id)),
                   updated_habit_id |-> None, table |-> result.table]

\* the habits table when the calls begin: habit 1 of user 1
HabitRow(user_id) ==
    [user_id |-> user_id, frequency_type |-> "day", frequency_value |-> 1]

HabitTables ==
    {[id \in RowIds |-> IF id = <<"1">> THEN Some(HabitRow(<<"1">>)) ELSE None]}

----------------------------------------------------------------------------
(* The calls of the tools *)

NoCall == [tool |-> "none"]
NoRowsYet == [id \in RowIds |-> None]

\* no tool has been called and the tables are empty
NoCalls ==
    /\ goals_table = NoRowsYet
    /\ habits_table = NoRowsYet
    /\ tool_call = NoCall
    /\ tool_result = None

\* the decision model calls update_goal_tool; db is how the database will
\* answer the call
CallUpdateGoalTool ==
    /\ tool_call = NoCall
    /\ \E user_id \in GivenIds, goal_id \in RowIds, updates \in GoalUpdates,
          db \in DbOutcomes :
         tool_call' = [tool |-> "update_goal_tool", user_id |-> user_id,
                       id |-> goal_id, updates |-> updates, db |-> db]
    /\ tool_result' = None
    /\ UNCHANGED <<single, concurrent, goals_table, habits_table>>

\* update_goal_tool runs and returns
UpdateGoalTool ==
    /\ tool_call.tool = "update_goal_tool"
    /\ LET outcome == update_goals(goals_table, tool_call.user_id, tool_call.id,
                                   tool_call.updates, tool_call.db)
       IN  /\ goals_table' = outcome.table
           /\ tool_result' = Some(update_goal_tool(outcome, tool_call.id))
    /\ tool_call' = NoCall
    /\ UNCHANGED <<single, concurrent, habits_table>>

\* the decision model calls update_habit_tool
CallUpdateHabitTool ==
    /\ tool_call = NoCall
    /\ \E user_id \in GivenIds, habit_id \in RowIds, updates \in HabitUpdates,
          db \in DbOutcomes :
         tool_call' = [tool |-> "update_habit_tool", user_id |-> user_id,
                       id |-> habit_id, updates |-> updates, db |-> db]
    /\ tool_result' = None
    /\ UNCHANGED <<single, concurrent, goals_table, habits_table>>

\* update_habit_tool runs and returns
UpdateHabitTool ==
    /\ tool_call.tool = "update_habit_tool"
    /\ LET returned == update_habit_tool(habits_table, tool_call.user_id,
                                         tool_call.id, tool_call.updates,
                                         tool_call.db)
       IN  /\ habits_table' = returned.table
           /\ tool_result' = Some([success |-> returned.success,
                                   message |-> returned.message,
                                   updated_habit_id |-> returned.updated_habit_id])
    /\ tool_call' = NoCall
    /\ UNCHANGED <<single, concurrent, goals_table>>

----------------------------------------------------------------------------
(* The specification *)

Entries == {"telegram", "chat", "goalgetter"}

TypeOK ==
    /\ pc \in {"idle", "first", "routing_agent", "tutor_agent", "tavily_agent",
               "respond_to_user", "END", "raised"}
    /\ exc \in {"None", "KeyError", "GraphRecursionError", "PersistenceError"}
    /\ writes \in 0..1
    /\ supersteps \in 0..RecursionLimit
    /\ Len(saved) <= 1
    /\ Len(reply) <= 1
    /\ entry \in Entries
    /\ user \in BOOLEAN
    /\ Len(gstate) <= 1
    /\ gpc \in {"idle", "routing_agent", "END", "raised"}

\* no request of the one chat has been made yet
NoRequest ==
    /\ entry \in Entries
    /\ state = NewState(<<>>)
    /\ pc = "idle"
    /\ exc = "None"
    /\ supersteps = 0
    /\ saved \in (IF entry = "telegram" THEN SavedConversations
                   ELSE IF entry = "chat" THEN ChatConversations
                   ELSE {None})
    /\ reply = None
    /\ decision = NoDecision
    /\ hist0 = 0
    /\ invocations = 0
    /\ llm_calls = 0
    /\ llm_timeouts = 0
    /\ writes = 0
    /\ user \in (IF entry = "goalgetter" THEN BOOLEAN ELSE {FALSE})
    /\ gstate = None
    /\ gpc = "idle"

Init == NoRequest /\ NoTurns /\ NoCalls

\* The start of a turn of the tutoring bot. The model follows the user up to
\* the first turn that saves its state, from each of the saved conversations
\* Init draws; a turn that failed saved nothing and the next message follows.
StartTurn(loaded, error_reply) ==
    /\ pc = "idle"
    /\ reply \in {None, Some(error_reply)}
    /\ state' = loaded
    /\ pc' = "first"
    /\ exc' = "None"
    /\ supersteps' = 0
    /\ reply' = None
    /\ decision' = NoDecision
    /\ hist0' = Len(state'.node_history)
    /\ invocations' = 0
    /\ llm_calls' = 0
    /\ llm_timeouts' = 0
    /\ writes' = 0
    /\ UNCHANGED <<entry, concurrent, tools, saved, goalgetter>>

\* load_conversation or save_conversation raised, after the given number of
\* writes: the request ends with the answer of the caller that catches the
\* exception; nothing of the turn is left, the row is as it was
PersistenceFailed(attempted, answer) ==
    /\ state' = NewState(<<>>)
    /\ pc' = "idle"
    /\ exc' = "PersistenceError"
    /\ supersteps' = 0
    /\ reply' = answer
    /\ decision' = NoDecision
    /\ hist0' = 0
    /\ invocations' = 0
    /\ llm_calls' = 0
    /\ llm_timeouts' = 0
    /\ writes' = attempted
    /\ UNCHANGED <<entry, concurrent, tools, saved, goalgetter>>

\* load_conversation raised: the request ends before the graph is run
LoadFailed(error_reply, answer) ==
    /\ pc = "idle"
    /\ reply \in {None, Some(error_reply)}
    /\ PersistenceFailed(0, answer)

\* handle_message up to mw_graph.ainvoke: load or create the state.
\* load_conversation is called outside the try block: when it raises, no
\* reply_text is sent and telegram_webhook answers with status 500.
HandleMessage ==
    /\ entry = "telegram"
    /\ \/ \E user_message \in UserMessages :
            StartTurn(IF saved # None THEN LoadedState(saved[1], user_message)
                      ELSE NewState(user_message),
                      ErrorReply)
       \/ LoadFailed(ErrorReply, None)

\* chat_endpoint up to graph.ainvoke: load or create the state.
\* load_conversation is called inside the try block: when it raises, the
\* except branch answers with the error text, status 200.
ChatEndpoint ==
    /\ entry = "chat"
    /\ \/ \E message_body \in UserMessages :
            StartTurn(IF saved # None THEN ChatLoadedState(saved[1], message_body)
                      ELSE ChatNewState(message_body),
                      ChatErrorReply)
       \/ LoadFailed(ChatErrorReply, Some(ChatErrorReply))

FirstNode ==
    /\ pc = "first"
    /\ state' = first_node(state)
    /\ supersteps' = supersteps + 1
    /\ pc' = NextPc(routing_from_first_node(state'), FirstEnds, supersteps')
    /\ exc' = NextExc(routing_from_first_node(state'), FirstEnds, supersteps')
    /\ UNCHANGED <<entry, concurrent, tools, saved, reply, ghost, goalgetter>>

RouterNode ==
    /\ pc = "routing_agent"
    /\ \E d \in LLMOutcomes :
         /\ state' = router_node(state, d)
         /\ decision' = d
         /\ llm_timeouts' = llm_timeouts + (IF d.kind = "timeout" THEN 1 ELSE 0)
    /\ llm_calls' = llm_calls + 1
    /\ invocations' = invocations + 1
    /\ supersteps' = supersteps + 1
    /\ pc' = NextPc(routing_after_routing_agent(state'), RouterEnds, supersteps')
    /\ exc' = NextExc(routing_after_routing_agent(state'), RouterEnds, supersteps')
    /\ UNCHANGED <<entry, concurrent, tools, saved, reply, hist0, writes, goalgetter>>

TutorNode ==
    /\ pc = "tutor_agent"
    /\ \E d \in LLMOutcomes :
         /\ state' = tutor_node(state, d)
         /\ decision' = d
         /\ llm_timeouts' = llm_timeouts + (IF d.kind = "timeout" THEN 1 ELSE 0)
    /\ llm_calls' = llm_calls + 1
    /\ invocations' = invocations + 1
    /\ supersteps' = supersteps + 1
    /\ pc' = NextPc(routing_after_tutor_agent(state'), TutorEnds, supersteps')
    /\ exc' = NextExc(routing_after_tutor_agent(state'), TutorEnds, supersteps')
    /\ UNCHANGED <<entry, concurrent, tools, saved, reply, hist0, writes, goalgetter>>

\* tavily_agent, then the edge tavily_agent -> tutor_agent
TavilyNode ==
    /\ pc = "tavily_agent"
    /\ \E found \in BOOLEAN : state' = tavily_agent(state, found)
    /\ invocations' = invocations + 1
    /\ supersteps' = supersteps + 1
    /\ pc' = NextPc("tutor_agent", {"tutor_agent"}, supersteps')
    /\ exc' = NextExc("tutor_agent", {"tutor_agent"}, supersteps')
    /\ UNCHANGED <<entry, concurrent, tools, saved, reply, decision, hist0, llm_calls,
                   llm_timeouts, writes, goalgetter>>

\* respond_to_user_node, then the edge respond_to_user -> END
RespondToUserNode ==
    /\ pc = "respond_to_user"
    /\ \E user_input \in ConsoleInputs :
         state' = respond_to_user_node(state, user_input)
    /\ invocations' = invocations + 1
    /\ supersteps' = supersteps + 1
    /\ pc' = "END"
    /\ exc' = "None"
    /\ UNCHANGED <<entry, concurrent, tools, saved, reply, decision, hist0, llm_calls,
                   llm_timeouts, writes, goalgetter>>

\* handle_message after ainvoke returned: extend the history, save, reply;
\* when save_conversation raises, the except branch sends the error text
HandleMessageReply ==
    /\ entry = "telegram"
    /\ pc = "END"
    /\ \/ /\ state' = WithResponse(state)
          /\ writes' = writes + 1
          /\ saved' = Some(state')
          /\ reply' = Some(ResponseOf(state))
          /\ pc' = "idle"
          /\ UNCHANGED <<entry, concurrent, tools, exc, supersteps, decision, hist0,
                         invocations, llm_calls, llm_timeouts, goalgetter>>
       \/ PersistenceFailed(writes + 1, Some(ErrorReply))

\* an except branch that saves the state the run had reached
HandleMessageErrorSaves ==
    /\ entry = "telegram"
    /\ pc = "raised"
    /\ saved' = Some(state)
    /\ writes' = writes + 1
    /\ reply' = Some(ErrorReply)
    /\ pc' = "idle"
    /\ UNCHANGED <<entry, concurrent, tools, state, exc, supersteps, decision, hist0,
                   invocations, llm_calls, llm_timeouts, goalgetter>>

\* handle_message's except branch: ainvoke raised
HandleMessageError ==
    /\ entry = "telegram"
    /\ pc = "raised"
    /\ reply' = Some(ErrorReply)
    /\ pc' = "idle"
    /\ UNCHANGED <<entry, concurrent, tools, state, exc, supersteps, saved, ghost, goalgetter>>

\* chat_endpoint after ainvoke returned: save the final state, then answer;
\* when save_conversation raises, the except branch answers the error text
ChatEndpointReply ==
    /\ entry = "chat"
    /\ pc = "END"
    /\ \/ /\ writes' = writes + 1
          /\ saved' = Some(state)
          /\ reply' = Some(ChatResponseOf(state))
          /\ pc' = "idle"
          /\ UNCHANGED <<entry, concurrent, tools, state, exc, supersteps, decision,
                         hist0, invocations, llm_calls, llm_timeouts, goalgetter>>
       \/ PersistenceFailed(writes + 1, Some(ChatErrorReply))

\* chat_endpoint's except branch: ainvoke raised
ChatEndpointError ==
    /\ entry = "chat"
    /\ pc = "raised"
    /\ reply' = Some(ChatErrorReply)
    /\ pc' = "idle"
    /\ UNCHANGED <<entry, concurrent, tools, state, exc, supersteps, saved, ghost, goalgetter>>

\* GoalGetter's chat_endpoint up to graph.ainvoke: populate_state finds the
\* user or creates it; when create_user fails it returns None and the
\* endpoint raises
GoalGetterChat ==
    /\ entry = "goalgetter"
    /\ gpc = "idle"
    /\ \E message \in UserMessages, created \in BOOLEAN,
          snapshot \in (IF user THEN Snapshots ELSE {NoRows}) :
         IF user \/ created
         THEN /\ gstate' = Some(populate_state(message, snapshot))
              /\ user' = TRUE
              /\ gpc' = "routing_agent"
         ELSE /\ gpc' = "raised"
              /\ UNCHANGED <<user, gstate>>
    /\ reply' = None
    /\ UNCHANGED <<entry, concurrent, tools, mwalimu>>

\* the graph START -> routing_agent -> END
GoalGetterRouterNode ==
    /\ gpc = "routing_agent"
    /\ \E d \in RouterOutcomes :
         gstate' = Some(goalgetter_router_node(gstate[1], d))
    /\ gpc' = "END"
    /\ UNCHANGED <<entry, concurrent, tools, mwalimu, reply, user>>

\* chat_endpoint returns the final state as its message; nothing is saved
GoalGetterChatReply ==
    /\ gpc = "END"
    /\ reply' = Some(Returned(gstate[1]))
    /\ gpc' = "idle"
    /\ UNCHANGED <<entry, concurrent, tools, mwalimu, user, gstate>>

\* chat_endpoint's except branch: HTTP 500
GoalGetterChatError ==
    /\ gpc = "raised"
    /\ reply' = Some(HTTP500)
    /\ gpc' = "idle"
    /\ UNCHANGED <<entry, concurrent, tools, mwalimu, user, gstate>>

Next ==
    \/ HandleMessage
    \/ ChatEndpoint
    \/ FirstNode
    \/ RouterNode
    \/ TutorNode
    \/ TavilyNode
    \/ RespondToUserNode
    \/ HandleMessageReply
    \/ HandleMessageError
    \/ ChatEndpointReply
    \/ ChatEndpointError
    \/ GoalGetterChat
    \/ GoalGetterRouterNode
    \/ GoalGetterChatReply
    \/ GoalGetterChatError

Spec == Init /\ [][Next]_vars

----------------------------------------------------------------------------
(* Several handle_message calls at once *)

\* the text of the update each call handles
TextOf(k) == IF k = 1 THEN <<"h">> ELSE <<"g">>

\* the decisions of these runs: a timeout, an answer, a handoff to the tutor
ConcurrentOutcomes ==
    {TimedOut, HandoffTo("respond_to_user", <<"a">>),
     HandoffTo("tutor_agent", NoMessage)}

\* the webhook calls handle_message: an update of chat c1 for the first
\* call, of either chat for the second
Receive(k) ==
    /\ turns[k].pc = "idle"
    /\ \E chat_id \in (IF k = 1 THEN {"c1"} ELSE Chats) :
         turns' = [turns EXCEPT ![k] = Received(store, chat_id, TextOf(k))]
    /\ UNCHANGED <<single, tools, store, written, same_inputs>>

\* mw_graph.ainvoke of the call k runs one node
Run(k) ==
    /\ Running(turns[k])
    /\ \E d \in ConcurrentOutcomes, user_input \in ConsoleInputs :
         turns' = [turns EXCEPT ![k] = Superstep(@, d, TRUE, user_input)]
    /\ UNCHANGED <<single, tools, store, written, same_inputs>>

\* ainvoke returned: the call k extends the history and saves; it replies,
\* or save_conversation raised
Answer(k) ==
    /\ turns[k].pc = "END"
    /\ LET final_state == WithResponse(turns[k].state)
       IN  \/ /\ store' = save_conversation(
                            store, serialize_state(final_state, turns[k].chat))
              /\ written' = [written EXCEPT ![turns[k].chat] = Some(final_state)]
              /\ turns' = [turns EXCEPT ![k].pc = "done",
                                        ![k].state = final_state]
           \/ /\ turns' = [turns EXCEPT ![k].pc = "done",
                                        ![k].exc = "PersistenceError"]
              /\ UNCHANGED <<store, written>>
    /\ UNCHANGED <<single, tools, same_inputs>>

\* ainvoke raised: the except branch of the call k
GiveUp(k) ==
    /\ turns[k].pc = "raised"
    /\ turns' = [turns EXCEPT ![k].pc = "done"]
    /\ UNCHANGED <<single, tools, store, written, same_inputs>>

ConcurrentInit == Init /\ entry = "telegram" /\ saved = None

ConcurrentNext ==
    \E k \in Turns : Receive(k) \/ Run(k) \/ Answer(k) \/ GiveUp(k)

Concurrent == ConcurrentInit /\ [][ConcurrentNext]_vars

----------------------------------------------------------------------------
(* A request and its retry *)

\* the decisions of these runs: those above and a handoff to the search
ReplayOutcomes ==
    ConcurrentOutcomes \cup {HandoffTo("tavily_agent", NoMessage)}

\* The row of chat c1 is one of the saved conversations and is not written:
\* the request of call 1 is made again as call 2 before anything is saved.
ReplayInit ==
    /\ NoRequest /\ entry = "telegram" /\ saved = None
    /\ store \in {[EmptyTable EXCEPT !["c1"] = row] : row \in SavedConversations}
    /\ turns = [k \in Turns |-> NoTurn]
    /\ written = store
    /\ same_inputs = TRUE
    /\ NoCalls

\* handle_message is called for the update and for its retry
ReplayReceive ==
    /\ \A k \in Turns : turns[k].pc = "idle"
    /\ \E user_message \in UserMessages :
         turns' = [k \in Turns |-> Received(store, "c1", user_message)]
    /\ UNCHANGED <<single, tools, store, written, same_inputs>>

\* Both runs take their next superstep, the decision model answering both
\* with the same decision d; the search and the console answer each run on
\* their own.
ReplayRun ==
    /\ \E k \in Turns : Running(turns[k])
    /\ \E d \in ReplayOutcomes, found \in [Turns -> BOOLEAN],
          user_input \in [Turns -> ConsoleInputs] :
         /\ turns' = [k \in Turns |->
                        IF Running(turns[k])
                        THEN Superstep(turns[k], d, found[k], user_input[k])
                        ELSE turns[k]]
         /\ same_inputs' =
               /\ same_inputs
               /\ (\E k \in Turns : turns[k].pc = "tavily_agent")
                     => found[1] = found[2]
               /\ (\E k \in Turns : turns[k].pc = "respond_to_user")
                     => user_input[1] = user_input[2]
    /\ UNCHANGED <<single, tools, store, written>>

ReplayNext == ReplayReceive \/ ReplayRun

Replay == ReplayInit /\ [][ReplayNext]_vars

----------------------------------------------------------------------------
(* The /start command *)

\* the welcome of start, for a sender without a first name
WelcomeMessage ==
    <<"Hello Student! Karibu sana! I am MwalimuBot, your personal tutor.">>

\* a start that leaves the row of a chat that has one
start_keeping_the_row(table, chat_id) ==
    IF table[chat_id] # None
    THEN table
    ELSE save_conversation(table, serialize_state(Started, chat_id))

\* start up to its reply: the initial state is saved over the row of the chat
start(table, chat_id) ==
    save_conversation(table, serialize_state(Started, chat_id))

\* The row of chat c1 is none or one a message saved.
SessionsInit ==
    /\ NoRequest /\ entry = "telegram" /\ saved = None
    /\ store \in {[EmptyTable EXCEPT !["c1"] = row] :
                     row \in SavedConversations \ {Some(Started)}}
    /\ turns = [k \in Turns |-> NoTurn]
    /\ written = store
    /\ same_inputs = TRUE
    /\ NoCalls

\* telegram_webhook receives /start from chat c1: start saves and welcomes,
\* or save_conversation raised and the webhook answers 500 with no reply
Start ==
    /\ \/ /\ store' = start(store, "c1")
          /\ written' = [written EXCEPT !["c1"] = Some(Started)]
          /\ reply' = Some(WelcomeMessage)
       \/ /\ reply' = None
          /\ UNCHANGED <<store, written>>
    /\ UNCHANGED <<entry, state, pc, exc, supersteps, saved, decision, hist0,
                   invocations, llm_calls, llm_timeouts, writes, user, gstate,
                   gpc, turns, same_inputs, tools>>

SessionsNext ==
    \/ Start
    \/ \E k \in Turns : Receive(k) \/ Run(k) \/ Answer(k) \/ GiveUp(k)

Sessions == SessionsInit /\ [][SessionsNext]_vars

----------------------------------------------------------------------------
(* The calls of the database tools *)

\* a user with a goal and a habit is served; the tools are called one after
\* the other, each call running one statement and its commit
ToolsInit ==
    /\ NoRequest /\ entry = "goalgetter" /\ user = TRUE
    /\ NoTurns
    /\ goals_table \in GoalTables
    /\ habits_table \in HabitTables
    /\ tool_call = NoCall
    /\ tool_result = None

ToolsNext ==
    \/ CallUpdateGoalTool
    \/ UpdateGoalTool
    \/ CallUpdateHabitTool
    \/ UpdateHabitTool

Tools == ToolsInit /\ [][ToolsNext]_vars

----------------------------------------------------------------------------
(* Properties *)

\* the nodes that call the decision model, and the error-entry name of each
DecisionNodes == {"routing_agent", "tutor_agent"}
HistoryName(node) == IF node = "routing_agent" THEN "router" ELSE "tutor"

\* the successors each decision node declares in its path map, END aside
DeclaredSuccessors(node) ==
    IF node = "routing_agent" THEN RouterEnds \ {"end"} ELSE TutorEnds \ {"end"}

\* the default successor the specification gives each decision node
DefaultSuccessor(node) ==
    IF node = "routing_agent" THEN "END" ELSE "respond_to_user"

\* the synthetic outgoing message of a tripped breaker
FallbackMessage == <<"I'm having trouble, please try again">>

\* the last decision handed the turn on to the search node
CyclingDecision ==
    /\ decision.kind = "Handoff"
    /\ decision.handoff_agents # <<>>
    /\ decision.handoff_agents[1].agent_name = "tavily_agent"

\* C1: when the decisions keep the turn cycling tutor_agent -> tavily_agent ->
\* tutor_agent until the step ceiling is reached, the turn is then at END with
\* the synthetic fallback message as its outgoing message.
C1_BreakerEndsCycle ==
    (supersteps >= RecursionLimit /\ CyclingDecision)
        => (pc = "END" /\ state.message_to_student = Some(FallbackMessage))

\* C2: a turn never uses up its ceiling of node invocations without reaching
\* END: it performs at most RecursionLimit invocations and the run is never
\* stopped by the ceiling's error instead of END.
C2_CeilingThenEnd ==
    /\ invocations <= RecursionLimit
    /\ ~(pc = "raised" /\ exc = "GraphRecursionError")

C4_RejectedFallsBack ==
    [][( /\ pc \in DecisionNodes
         /\ state'.handoff_agents # <<>>
         /\ state'.handoff_agents[1] \notin DeclaredSuccessors(pc) )
            => (pc' = DefaultSuccessor(pc) /\ exc' = "None")]_vars

\* C5: at the end of a turn node_history has grown by exactly the number of
\* agent-node invocations of the turn.
C5_HistoryCountsInvocations ==
    pc = "END" => Len(state.node_history) = hist0 + invocations

WellShaped(handoff) ==
    handoff.agent_specific_parameters.shape = OwnShape(handoff.agent_name)

\* C6: the pending handoff list holds only entries whose parameters have the
\* shape of their agent_name.
C6_PendingWellShaped ==
    \A i \in 1..Len(state.handoff_agents_params) :
        WellShaped(state.handoff_agents_params[i])

\* C7: parsing a decision keeps every well-shaped entry of it, unchanged and
\* in the original order, whatever malformed entries stand beside them.
C7_ValidEntriesKept ==
    [][(pc \in DecisionNodes /\ decision'.kind = "Handoff")
         => SelectSeq(state'.handoff_agents_params, WellShaped)
              = SelectSeq(decision'.handoff_agents, WellShaped)]_vars

\* the respond_to_user entries of a handoff list
RespondIndexes(agents) ==
    {i \in 1..Len(agents) : agents[i].agent_name = "respond_to_user"}

FirstRespond(agents) ==
    agents[CHOOSE i \in RespondIndexes(agents) :
                \A j \in RespondIndexes(agents) : i <= j]

\* C8: when the decision holds a respond_to_user entry (the first of them
\* carrying a message), the outgoing message is the message of that first
\* entry, as given or with its markdown stripped, whatever precedes it.
C8_FirstRespondIsOutgoing ==
    [][( /\ pc \in DecisionNodes
         /\ decision'.kind = "Handoff"
         /\ RespondIndexes(decision'.handoff_agents) # {}
         /\ HasMessageToStudent(
                FirstRespond(decision'.handoff_agents).agent_specific_parameters) )
            => LET m == FirstRespond(decision'.handoff_agents)
                            .agent_specific_parameters.message_to_student
               IN  state'.message_to_student
                      \in {OrNone(Some(m)), OrNone(Some(strip_markdown(m)))}]_vars

C10_ThreeErrorsThenBreaker ==
    (pc = "END" /\ llm_calls > 0 /\ llm_timeouts = llm_calls)
        => /\ Len(state.node_history) = hist0 + 3
           /\ \A i \in (hist0 + 1)..Len(state.node_history) :
                 state.node_history[i].response = "Error"
           /\ state.message_to_student = Some(FallbackMessage)

----------------------------------------------------------------------------
(* Attempt counters, pending handoffs and the outgoing message *)

\* C11: every execution of a node raises that node's own attempt counter by
\* exactly one, whether the execution succeeds or fails.
C11_ExecutionCounted ==
    [][ /\ (pc = "routing_agent")
            => state'.router_attempts = state.router_attempts + 1
        /\ (pc = "tutor_agent")
            => state'.tutor_attempts = state.tutor_attempts + 1
        /\ (pc = "tavily_agent")
            => state'.tavily_attempts = state.tavily_attempts + 1
        /\ (pc = "respond_to_user")
            => state'.response_to_user_attempts
                 = state.response_to_user_attempts + 1
        /\ (gpc = "routing_agent")
            => gstate'[1].router_attempts = gstate[1].router_attempts + 1 ]_vars

IsPrefix(s, t) == Len(s) <= Len(t) /\ SubSeq(t, 1, Len(s)) = s

CountersOf(st) ==
    <<st.router_attempts, st.tutor_attempts, st.tavily_attempts,
      st.response_to_user_attempts>>

NoDecrease(before, after) ==
    \A i \in 1..Len(before) : before[i] <= after[i]

\* a turn of the tutoring bot starts after an earlier turn of the user
NextTurnStarts ==
    pc = "idle" /\ reply # None /\ exc # "PersistenceError" /\ pc' = "first"

\* a step of a turn in progress, the store not failing
TurnStep == pc # "idle" /\ exc' # "PersistenceError"

\* a request to GoalGetter starts after an earlier request of the user
NextRequestStarts ==
    gpc = "idle" /\ gstate # None /\ user /\ gpc' = "routing_agent"

\* C12: no attempt counter ever decreases, from one node execution to the next
\* and from one turn of a user to the next; what is loaded is what was saved.
C12_CountersNeverDecrease ==
    [][ /\ (TurnStep \/ NextTurnStarts)
            => NoDecrease(CountersOf(state), CountersOf(state'))
        /\ (saved # None /\ pc' # "idle")
            => NoDecrease(CountersOf(saved[1]), CountersOf(state'))
        /\ (gpc = "routing_agent" \/ NextRequestStarts)
            => gstate[1].router_attempts <= gstate'[1].router_attempts ]_vars

\* the states in which a node of the tutoring graph is about to run
AboutToRun ==
    pc \in {"first", "routing_agent", "tutor_agent", "tavily_agent",
            "respond_to_user"}

\* C13: the pending handoff list is empty at the start of every node
\* invocation, the first node of a turn included.
C13_NoPendingAtNodeStart ==
    AboutToRun => (state.handoff_agents = <<>> /\ state.handoff_agents_params = <<>>)

OutgoingSet(st) ==
    \/ st.message_to_student # None /\ Truthy(st.message_to_student[1])
    \/ st.message_to_user # None /\ Truthy(st.message_to_user[1])

ErrorRecorded(st) == st.error_message # "None"

\* C14: when the graph run of a turn exits at END, either an outgoing message
\* is set or an error is recorded, and never both.
C14_MessageOrError ==
    pc = "END" => (OutgoingSet(state) # ErrorRecorded(state))

\* the replies the handlers send when the turn produced no message
FallbackReplies == {ThinkingReply, ProcessingComplete, ErrorReply, ChatErrorReply}

\* C15: the outgoing message is unset at the start of every turn, and the
\* reply of a turn in which every decision-model call timed out (no message
\* was produced) is a fallback string, never the message of an earlier turn.
C15_OutgoingClearedAtTurnStart ==
    /\ (pc = "first") => ~OutgoingSet(state)
    /\ (pc = "idle" /\ reply # None /\ entry # "goalgetter"
          /\ llm_calls > 0 /\ llm_timeouts = llm_calls)
            => reply[1] \in FallbackReplies

----------------------------------------------------------------------------
(* The first node of a turn and what is carried from turn to turn *)

\* no node has run for the user: empty node_history and all counters 0
Fresh(st) ==
    st.node_history = <<>> /\ CountersOf(st) = <<0, 0, 0, 0>>

\* C16: a turn on a fresh state starts at the router agent, whichever entry
\* point runs it; a request to GoalGetter, whose state is always fresh, does.
C16_FreshStartsAtRouter ==
    [][ /\ (pc = "first" /\ Fresh(state)) => pc' = "routing_agent"
        /\ (gpc = "idle" /\ gpc' \notin {"idle", "raised"})
            => (gpc' = "routing_agent" /\ gstate'[1].node_history = <<>>
                  /\ gstate'[1].router_attempts = 0) ]_vars

\* a fresh Telegram chat, after /start or without it, is at the router
C16_Witness ==
    /\ pc = "routing_agent"
    /\ entry = "telegram"
    /\ supersteps = 1
    /\ Fresh(state)
    /\ saved = Some(Started)

\* the node whose entry is the last of node_history
ResumeNode(last) ==
    IF last.node_name = "router" THEN "routing_agent" ELSE "tutor_agent"

\* C17: a turn that follows an earlier turn of the user (node_history is not
\* empty) starts at the node that the final node_history entry of the earlier
\* turn records.
C17_ResumesFromLastEntry ==
    [][(pc = "first" /\ state.node_history # <<>>)
         => pc' = ResumeNode(state.node_history[Len(state.node_history)])]_vars

\* the decision is a single handoff to respond_to_user carrying a message
SingleRespond(d) ==
    /\ d.kind = "Handoff"
    /\ Len(d.handoff_agents) = 1
    /\ d.handoff_agents[1].agent_name = "respond_to_user"
    /\ HasMessageToStudent(d.handoff_agents[1].agent_specific_parameters)

\* C18: on a fresh state, when the router's decision is a single handoff to
\* respond_to_user with a message, the turn ends with that message as the
\* outgoing message, exactly one node_history entry and router_attempts = 1:
\* in the tutoring bot and in GoalGetter.
C18_ScenarioA ==
    /\ (pc = "END" /\ saved = None /\ invocations = 2 /\ SingleRespond(decision))
          => /\ state.message_to_student
                  = Some(decision.handoff_agents[1]
                            .agent_specific_parameters.message_to_student)
             /\ Len(state.node_history) = 1
             /\ state.router_attempts = 1
    /\ (gpc = "END" /\ gstate[1].router_output # None
          /\ gstate[1].router_output[1].next_agents = <<"respond_to_user">>
          /\ gstate[1].router_output[1].message_to_user # None)
          => /\ gstate[1].response = gstate[1].router_output[1].message_to_user[1]
             /\ Len(gstate[1].node_history) = 1
             /\ gstate[1].router_attempts = 1

\* node_history, the counters and conversation_history of 'before' are in 'after'
CarriedForward(before, after) ==
    /\ IsPrefix(before.node_history, after.node_history)
    /\ NoDecrease(CountersOf(before), CountersOf(after))
    /\ IsPrefix(before.conversation_history, after.conversation_history)

\* C19: what a turn accumulated (node_history, attempt counters,
\* conversation_history) is in the state with which the user's next turn
\* starts, for every entry point; a turn that ends at END saves it, unless
\* the store fails.
C19_StateCarriedForward ==
    [][ /\ NextTurnStarts => CarriedForward(state, state')
        /\ (pc = "END" /\ pc' = "idle" /\ exc' = "None")
            => (saved' # None /\ CarriedForward(state, saved'[1]))
        /\ (pc = "idle" /\ pc' = "first" /\ saved # None)
            => CarriedForward(saved[1], state')
        /\ NextRequestStarts
            => /\ IsPrefix(gstate[1].node_history, gstate'[1].node_history)
               /\ gstate[1].router_attempts <= gstate'[1].router_attempts ]_vars

\* C20: conversation_history only grows at its end: at every step of a turn,
\* when it is saved, when it is loaded, and from one turn of the user to the
\* next, the earlier history is a prefix of the later one.
C20_HistoryAppendOnly ==
    [][ /\ (TurnStep \/ NextTurnStarts)
            => IsPrefix(state.conversation_history, state'.conversation_history)
        /\ (pc = "END" /\ pc' = "idle" /\ exc' = "None")
            => IsPrefix(state.conversation_history, saved'[1].conversation_history)
        /\ (pc = "idle" /\ pc' = "first" /\ saved # None)
            => IsPrefix(saved[1].conversation_history,
                        state'.conversation_history) ]_vars

----------------------------------------------------------------------------
(* The end of a turn: history, reply, errors and the store *)

\* the role under which the user's messages are kept; the handlers write it
\* 'human'
InboundRoles == {"user", "human"}

\* C21: each turn pushes the inbound message onto conversation_history under
\* the user's role before any node runs; when the graph run has exited at END
\* the handler pushes an assistant entry if and only if an outgoing message
\* was set, its content being that message.
C21_TurnHistory ==
    [][ /\ (pc = "idle" /\ pc' = "first")
            => LET h == state'.conversation_history
               IN  /\ h # <<>>
                   /\ h[Len(h)].role \in InboundRoles
                   /\ h[Len(h)].content = state'.user_input
        /\ (pc = "END" /\ pc' = "idle" /\ exc' = "None")
            => state'.conversation_history =
                 (IF OutgoingSet(state)
                  THEN Append(state.conversation_history,
                              AssistantEntry(ResponseOf(state)))
                  ELSE state.conversation_history) ]_vars

\* C22: at the end of every turn of the tutoring bot that had no persistence
\* failure, the reply is the outgoing message if the turn's state holds one
\* and a fixed fallback string otherwise, and it is never empty.
C22_ReplyIsMessageOrFallback ==
    (pc = "idle" /\ reply # None /\ entry # "goalgetter"
       /\ exc # "PersistenceError")
        => /\ reply[1] # <<>>
           /\ IF OutgoingSet(state) THEN reply[1] = ResponseOf(state)
              ELSE reply[1] \in FallbackReplies

\* the nodes of the tutoring graph that call a model or a service
AgentNodes == {"routing_agent", "tutor_agent", "tavily_agent", "respond_to_user"}

\* C23: an error a node recorded stays in the state while the turn runs: no
\* later node erases it, and the error GoalGetter's router recorded is in the
\* state the caller is given.
C23_ErrorNotDropped ==
    [][ /\ (pc \in AgentNodes /\ ErrorRecorded(state)) => ErrorRecorded(state')
        /\ (gpc = "routing_agent"
               /\ gstate'[1].node_history[Len(gstate'[1].node_history)]
                     = ErrorEntry("router"))
            => gstate'[1].router_output[1].error # None
        /\ (gpc = "END" /\ gpc' = "idle")
            => reply' = Some(Returned(gstate[1])) ]_vars


\* C24: a load or save failure of the store ends the request of the tutoring
\* bot as a hard failure: the exception leaves the handler (the webhook
\* answers 500) and no reply text, normal or friendly, goes to the user.
C24_PersistenceFailureIsHard ==
    (pc = "idle" /\ exc = "PersistenceError") => reply = None

\* the replies that tell the user of an error in friendly words
FriendlyReplies == {ErrorReply, ChatErrorReply}

\* the exception texts the nodes and the endpoint can meet
ExceptionTexts ==
    {ExceptionText(kind) : kind \in {"error", "timeout", "wrong_type"}}

Mentions(text, pieces) == \E i \in 1..Len(text) : text[i] \in pieces

\* C25: whatever fails in a turn other than the store, the caller receives a
\* generic friendly fallback and no text of the exception: the replies of the
\* tutoring bot after an exception of the graph run are the friendly texts,
\* and what GoalGetter returns after its router failed holds a response for
\* the user and no exception text.
C25_FailureGetsFriendlyFallback ==
    /\ (pc = "idle" /\ exc \in {"KeyError", "GraphRecursionError"})
          => reply \in {Some(r) : r \in FriendlyReplies}
    /\ (gpc = "idle" /\ entry = "goalgetter" /\ reply # None
          /\ reply[1].status_code = 200
          /\ reply[1].content.router_output[1].error # None)
          => /\ reply[1].content.response # <<>>
             /\ ~Mentions(reply[1].content.router_output[1].error[1],
                          ExceptionTexts)

\* C28: a turn calls save_conversation at most once, and only when the graph
\* run has reached END: the row of the chat changes on no other step, and no
\* node saves the state.
C28_OneWriteAfterEnd ==
    [][ /\ writes' <= 1
        /\ (writes' > writes) => (pc = "END" /\ pc' = "idle")
        /\ (saved' # saved) => (pc = "END" /\ writes' = writes + 1) ]_vars

\* a turn that ran the router and the tutor was saved, once
C28_Witness ==
    /\ pc = "idle"
    /\ writes = 1
    /\ exc = "None"
    /\ invocations >= 3
    /\ saved # None
    /\ reply # None

\* the domain snapshot of a GoalGetterState
DomainSnapshot(st) ==
    <<st.goals, st.habits, st.milestones, st.progress_logs, st.user_summary,
      st.conversations>>

\* C29: the router node of GoalGetter, succeeding or failing, leaves goals,
\* habits, milestones, progress_logs, user_summary and conversations as
\* populate_state read them, and the endpoint returns them so.
C29_DomainSnapshotKept ==
    [][ /\ (gpc = "routing_agent")
            => DomainSnapshot(gstate'[1]) = DomainSnapshot(gstate[1])
        /\ (gpc = "END" /\ gpc' = "idle")
            => DomainSnapshot(reply'[1].content) = DomainSnapshot(gstate[1]) ]_vars

\* the router failed on a state that holds a goal and an earlier conversation
C29_Witness ==
    /\ gpc = "END"
    /\ gstate[1].goals = <<"goal">>
    /\ gstate[1].conversations = <<"conversation">>
    /\ gstate[1].router_attempts = 1
    /\ gstate[1].node_history = <<ErrorEntry("router")>>

----------------------------------------------------------------------------
(* Several chats at once *)

\* C26: the row of a chat is always the whole result of the call that saved
\* last for that chat, also when two calls of the chat both loaded before
\* either saved: never a mixture of the two.
C26_LastWriterWins ==
    \A c \in Chats : store[c] = written[c]

\* both calls of chat c1 loaded the empty row, both saved, the second last
C26_Witness ==
    /\ \A k \in Turns :
          /\ turns[k].chat = "c1"
          /\ turns[k].pc = "done"
          /\ turns[k].exc = "None"
          /\ turns[k].loaded = None
    /\ store["c1"] = Some(turns[2].state)
    /\ turns[1].state.conversation_history # turns[2].state.conversation_history

\* C27: calls of different chats are independent under every interleaving:
\* a step of one call changes no other call and no row but the row of its own
\* chat, the state it starts from is built from the row of its own chat, and
\* when the other call is of another chat it loads what it would load alone.
C27_ChatsIndependent ==
    [][ \A k \in Turns :
          (turns'[k] # turns[k])
            => /\ \A j \in Turns \ {k} : turns'[j] = turns[j]
               /\ \A c \in Chats \ {turns'[k].chat} : store'[c] = store[c]
               /\ (turns[k].pc = "idle")
                    => /\ turns'[k].loaded = store[turns'[k].chat]
                       /\ (\A j \in Turns \ {k} : turns[j].chat # turns'[k].chat)
                            => turns'[k] = Received(EmptyTable, turns'[k].chat,
                                                    TextOf(k)) ]_vars

\* the second call, of chat c2, started after the first had saved the row of
\* chat c1, and each row holds the state of its own call
C27_Witness ==
    /\ turns[1].chat = "c1" /\ turns[2].chat = "c2"
    /\ \A k \in Turns : turns[k].pc = "done" /\ turns[k].exc = "None"
    /\ store["c1"] = Some(turns[1].state)
    /\ store["c2"] = Some(turns[2].state)
    /\ turns[1].state # turns[2].state

----------------------------------------------------------------------------
(* A request and its retry *)

Finished(t) == t.pc \in {"END", "raised"}

\* the nodes a run has visited are read off node_history and the position
SamePath ==
    /\ turns[1].pc = turns[2].pc
    /\ turns[1].exc = turns[2].exc
    /\ turns[1].supersteps = turns[2].supersteps
    /\ turns[1].state.node_history = turns[2].state.node_history
    /\ turns[1].state.first_node = turns[2].state.first_node

WithinCeiling == \A k \in Turns : turns[k].supersteps <= RecursionLimit

----------------------------------------------------------------------------
(* The shape of the graphs *)

\* C31: every run of the tutoring graph that reaches END reaches it from the
\* respond_to_user node.
C31_EndsFromRespondToUser ==
    [][(pc # "END" /\ pc' = "END") => pc = "respond_to_user"]_vars


\* the agents first_node may take from an entry or from current_step
ResumableAgents == {"routing_agent", "tutor_agent"}

\* the agent_after_response of the last respond_to_user entry of a history
\* that names one of these agents: Some(agent), or None when no entry does
RECURSIVE AgentAfterResponse(_, _)
AgentAfterResponse(history, i) ==
    IF i = 0 THEN None
    ELSE IF /\ history[i].node_name = "respond_to_user"
            /\ "agent_after_response" \in DOMAIN history[i]
         THEN IF history[i].agent_after_response \in ResumableAgents
              THEN Some(history[i].agent_after_response)
              ELSE None
         ELSE AgentAfterResponse(history, i - 1)

\* C34: on a non-empty node_history first_node selects the valid agent the
\* last respond_to_user entry names in agent_after_response; when no entry
\* gives one it takes the agent current_step names, and when current_step
\* names none its default is the routing node.
C34_FirstNodeFromHistory ==
    [][ (pc = "first" /\ state.node_history # <<>>)
          => LET named == AgentAfterResponse(state.node_history,
                                             Len(state.node_history))
             IN  state'.first_node =
                   (IF named # None THEN named[1]
                    ELSE IF state.current_step \in ResumableAgents
                    THEN state.current_step
                    ELSE "routing_agent") ]_vars

\* C35: the node name first_node computes is always one of the successors
\* the graph declares for the node 'first' (routing_agent, tutor_agent, end):
\* the first edge of a turn never raises for an undeclared name.
C35_FirstNodeIsDeclared ==
    [][ (pc = "first")
          => /\ routing_from_first_node(state') \in FirstEnds
             /\ exc' = "None"
             /\ pc' \in {"routing_agent", "tutor_agent", "END"} ]_vars

\* a turn on a saved conversation went through first_node, whose chain on
\* current_step fell to its last branch
C35_Witness ==
    /\ pc = "tutor_agent"
    /\ supersteps = 1
    /\ saved # None
    /\ state.node_history # <<>>
    /\ state.current_step \notin {"routing_agent", "tutor_agent", "tavily_agent"}
    /\ state.first_node = "tutor_agent"

\* the searches tavily_agent has run in the turn: tavily_attempts counts
\* them on top of what the row of the chat held when the turn began
Searches(st, row) ==
    st.tavily_attempts - (IF row = None THEN 0 ELSE row[1].tavily_attempts)

C37_RouterRunsOnce ==
    [][ /\ (gpc = "routing_agent")
            => /\ gpc' = "END"
               /\ gstate'[1].router_attempts = gstate[1].router_attempts + 1
        /\ (gpc' = "END")
            => /\ gstate'[1].router_attempts = 1
               /\ Len(gstate'[1].node_history) = 1
               /\ gstate'[1].node_history[1].node_name = "router"
               /\ gstate'[1].router_output # None
               /\ gstate'[1].router_output[1].next_agents \in NextAgentLists
        /\ (gpc = "END")
            => /\ gpc' = "idle"
               /\ gstate' = gstate
               /\ reply' = Some(Returned(gstate[1])) ]_vars

\* the decision named two agents: they are in router_output, the request is
\* at END and the router is the one node that ran
C37_Witness ==
    /\ gpc = "END"
    /\ gstate[1].router_output[1].next_agents = <<"habit_agent", "milestone_agent">>
    /\ gstate[1].router_attempts = 1
    /\ gstate[1].node_history = <<HandoffEntry("router")>>

----------------------------------------------------------------------------
(* The database tools *)

\* the columns the docstring of update_goal_tool offers
GoalToolColumns == {"title", "description", "status", "start_date", "target_date"}

\* an update the tool is to reject: a column that is not allowed, an invalid
\* status, a date that is not YYYY-MM-DD
GoalUpdateRejected(updates) ==
    \E column \in DOMAIN updates :
       \/ column \notin GoalToolColumns
       \/ column = "status" /\ updates[column].text \notin GoalStatuses
       \/ column \in {"start_date", "target_date"} /\ updates[column].text \notin Dates

\* C32: update_goal_tool reports success (success true, the message
\* 'Successfully updated goal', updated_goal_id set) only when a row of the
\* given user_id and goal_id was updated; when the update is rejected or the
\* database fails it reports success false and the goals table is unchanged.
C32_GoalToolReportsTruthfully ==
    [][ (tool_call.tool = "update_goal_tool" /\ tool_result' # None)
          => LET call == tool_call
                 result == tool_result'[1]
             IN  /\ ( /\ result.success = PyBool(TRUE)
                      /\ result.message.text = "Successfully updated goal "
                      /\ result.updated_goal_id # None )
                       => /\ goals_table[call.id] # None
                          /\ goals_table[call.id][1].user_id = call.user_id
                          /\ goals_table'[call.id]
                               = Some(SetColumns(goals_table[call.id][1], call.updates))
                 /\ (GoalUpdateRejected(call.updates) \/ call.db # "ok")
                       => /\ result.success = PyBool(FALSE)
                          /\ goals_table' = goals_table ]_vars

\* the example of the docstring of update_habit_tool
FrequencyExample ==
    [frequency_type |-> StrValue("week"), frequency_value |-> StrValue("3")]

\* C33: update_habit_tool given an existing habit of the user and the
\* documented updates {'frequency_type': 'week', 'frequency_value': '3'}
\* succeeds and stores the new frequency; and every updates dictionary the
\* tool's own validation passes is accepted by update_habits.
C33_HabitToolAcceptsItsExample ==
    [][ (tool_call.tool = "update_habit_tool" /\ tool_result' # None)
          => LET call == tool_call
                 result == tool_result'[1]
             IN  /\ ( /\ call.updates = FrequencyExample
                      /\ call.db = "ok"
                      /\ HabitRowsMatched(habits_table, call.user_id, call.id) # {} )
                       => /\ result.success = PyBool(TRUE)
                          /\ habits_table'[call.id][1].frequency_type = "week"
                          /\ habits_table'[call.id][1].frequency_value = 3
                 /\ ~HabitToolRaises(call.user_id, call.id, call.updates)
                       => ~HabitUpdatesRaise(call.user_id, call.id, call.updates) ]_vars

----------------------------------------------------------------------------
(* The /start command *)

\* C38: /start begins a new session. Whatever the row of the chat held, once
\* start has saved and welcomed, the row holds a state with an empty
\* node_history and all attempt counters 0, and the other chat's row is as
\* it was; and the turn of a message that loaded such a row goes from the
\* first node to the routing agent.
C38_StartBeginsANewSession ==
    [][ /\ (turns' = turns /\ reply' = Some(WelcomeMessage))
            => /\ store'["c1"] # None
               /\ Fresh(store'["c1"][1])
               /\ store'["c2"] = store["c2"]
        /\ \A k \in Turns :
              ( /\ turns[k].pc = "first"
                /\ turns[k].loaded # None
                /\ Fresh(turns[k].loaded[1])
                /\ turns'[k] # turns[k] )
              => turns'[k].pc = "routing_agent" ]_vars

\* call 1 saved a conversation with a history, /start replaced it, and the
\* message of call 2 loaded what /start saved and is at the routing agent
C38_Witness ==
    /\ reply = Some(WelcomeMessage)
    /\ turns[1].pc = "done" /\ turns[1].exc = "None"
    /\ turns[1].state.node_history # <<>>
    /\ store["c1"] = Some(Started)
    /\ turns[2].chat = "c1"
    /\ turns[2].loaded = Some(Started)
    /\ turns[2].pc = "routing_agent"

====
